---- MODULE Spec2Model ----
(***************************************************************************)
(* Branch Time Tracker (src/src/extension.ts): the session / idle state    *)
(* machine, the per-workspace time ledger and the session recovery, as a   *)
(* state machine over the extension's module-level variables, the host's   *)
(* globalState storage, the clock and the pending timers.                  *)
(*                                                                         *)
(* JavaScript values: null / undefined / 0 are all falsy for a number, so  *)
(* a missing timestamp is 0; null / undefined / '' are falsy for a string, *)
(* so a missing branch is ""; the empty workspace id '' is <<>>.           *)
(***************************************************************************)
EXTENDS Integers, Sequences, FiniteSets, TLC

VARIABLES
    \* module-level variables of extension.ts (lines 7-13)
    trackingStart, currentBranch, branchTimeMap, idleTimer,
    lastTrackedBranch, currentWorkspace,
    \* the host: globalState storage, the folder open in the window, the
    \* clock, the event loop's timers, and the extension process
    globalState, workspaceFolder, now, timers, proc,
    \* history: the handler that ran last, clock advances and extension
    \* processes so far, the current run of back-to-back sessions, the time of the last activity
    \* signal, the time of the last resume, the progress of the end-to-end
    \* scenario
    lastEvent, ticks, lives, run, lastActivityAt, resumedAt, scn,
    \* whether an exception left the handler that ran last
    hostError,
    \* the branchTimeMap in the memory of a second extension process, the
    \* one of another window sharing globalState
    otherBranchTimeMap

vars == <<trackingStart, currentBranch, branchTimeMap, idleTimer,
          lastTrackedBranch, currentWorkspace, globalState,
          workspaceFolder, now, timers, proc, lastEvent, ticks, lives, run,
          lastActivityAt, resumedAt, scn, hostError, otherBranchTimeMap>>

---------------------------------------------------------------------------
(* Bounds of the model *)

\* the clock reading when the model starts (epoch milliseconds)
Epoch == 1000000
\* how many times the clock advances
MaxTicks == 2
\* how many extension processes are started
MaxLives == 2
\* how many branch switches one run of back-to-back sessions may hold
MaxSwitches == 2

\* the amounts the clock advances by, in milliseconds: whole idle windows
\* under Spec, fractions of a second under SpecFine
TickSteps == {300000}
FineSteps == {999}
\* the instants of the end-to-end scenario, under SpecScenario
ScenarioEnd == Epoch + 450000
ScenarioTimes == {Epoch + 100000, Epoch + 300000, Epoch + 400000,
                  ScenarioEnd}

---------------------------------------------------------------------------
(* Constants of the program *)

IdleTimeoutMs == 5 * 60 * 1000
MAX_SESSION_AGE_MS == 10 * 60 * 1000

\* project root paths, as sequences of characters
PathA == <<"/", "a", "/", "p">>
PathB == <<"/", "b", "/", "p">>
Paths == {PathA, PathB}

\* a project folder moved to another parent folder, its name kept
MovedFrom == <<"/", "h", "o", "m", "e", "/", "a", "/", "p">>
MovedTo == <<"/", "h", "o", "m", "e", "/", "b", "/", "p">>
IdentityPaths == {PathA, MovedFrom, MovedTo}

Branches == {"main", "dev"}
\* what getGitBranchName can return: a branch name, or null ("")
GitResults == Branches \cup {""}

\* what getGitBranchName finds in the folder: whether .git exists, whether
\* execSync throws (git missing or exiting non-zero), and what git prints,
\* trimmed; in detached HEAD state git rev-parse --abbrev-ref HEAD exits 0
\* and prints HEAD
Repo(dotGit, throws, stdout) ==
    [dotGit |-> dotGit, throws |-> throws, stdout |-> stdout]
NotARepo == Repo(FALSE, FALSE, "")
GitError == Repo(TRUE, TRUE, "")
OnBranch(b) == Repo(TRUE, FALSE, b)
Detached == OnBranch("HEAD")
RepoStates == {NotARepo, GitError, OnBranch("main"), Detached}

NoWorkspace == <<>>
\* no folder open: workspaceFolders is undefined or empty
NoFolder == <<>>
EmptyMap == [x \in {} |-> 0]

---------------------------------------------------------------------------
(* Workspace identity *)

Min(a, b) == IF a < b THEN a ELSE b

\* path.basename: what follows the last separator
Basename(p) ==
    LET i == CHOOSE k \in 0..Len(p) :
                 /\ (k = 0 \/ p[k] = "/")
                 /\ \A j \in (k + 1)..Len(p) : p[j] # "/"
    IN SubSeq(p, i + 1, Len(p))

\* Buffer.from(path).toString('base64').slice(0, 8): eight base64 characters
\* encode exactly the first six bytes of the path
WorkspaceHash(p) == SubSeq(p, 1, Min(6, Len(p)))

GetWorkspaceId(p) == <<Basename(p), WorkspaceHash(p)>>

WorkspaceIds == {GetWorkspaceId(p) : p \in Paths}

---------------------------------------------------------------------------
(* The ledger: workspace id -> branch -> seconds *)

\* branchTimeMap[ws], or {} when the workspace has no entry
LedgerGet(map, ws) == IF ws \in DOMAIN map THEN map[ws] ELSE EmptyMap

\* keyed by branch alone: the seconds go to the branch in every workspace
LedgerAdd_AllWorkspaces(map, ws, branch, seconds) ==
    [w \in DOMAIN map \cup {ws} |->
        LET old  == LedgerGet(map, w)
            prev == IF branch \in DOMAIN old THEN old[branch] ELSE 0
        IN [b \in DOMAIN old \cup {branch} |->
               IF b = branch THEN prev + seconds ELSE old[b]]]

\* nothing written when there is nothing to add
LedgerAdd_SkipZero(map, ws, branch, seconds) ==
    IF seconds = 0 THEN map
    ELSE LedgerAdd_AllWorkspaces([w \in {ws} |-> LedgerGet(map, ws)],
                                 ws, branch, seconds)
         @@ map

\* map[ws][branch] = (map[ws][branch] || 0) + seconds, creating entries
LedgerAdd(map, ws, branch, seconds) ==
    LET old  == LedgerGet(map, ws)
        prev == IF branch \in DOMAIN old THEN old[branch] ELSE 0
        new  == [b \in DOMAIN old \cup {branch} |->
                    IF b = branch THEN prev + seconds ELSE old[b]]
    IN [w \in DOMAIN map \cup {ws} |-> IF w = ws THEN new ELSE map[w]]

\* the whole map dropped
LedgerDelete_All(map, ws) == EmptyMap

\* delete map[ws]
LedgerDelete(map, ws) == [w \in DOMAIN map \ {ws} |-> map[w]]

\* rounding up instead of down
DurationSec_Ceil(start, t) == (t - start + 999) \div 1000

\* the division left out: milliseconds
DurationSec_Millis(start, t) == t - start

\* the operands swapped
DurationSec_Swapped(start, t) == (start - t) \div 1000

\* Math.floor((t - start) / 1000)
DurationSec(start, t) == (t - start) \div 1000

---------------------------------------------------------------------------
(* The handlers' effects on the extension's state, as functions of a       *)
(* record m of the mutable state a handler reads and writes                *)

Mem == [trackingStart |-> trackingStart, currentBranch |-> currentBranch,
        branchTimeMap |-> branchTimeMap, idleTimer |-> idleTimer,
        lastTrackedBranch |-> lastTrackedBranch,
        globalState |-> globalState, timers |-> timers, commits |-> <<>>,
        getFails |-> FALSE, updateFails |-> FALSE, thrown |-> FALSE]

\* the module-level initialisers, in a new extension process
FreshMem == [trackingStart |-> 0, currentBranch |-> "",
             branchTimeMap |-> EmptyMap, idleTimer |-> 0,
             lastTrackedBranch |-> "",
             globalState |-> globalState, timers |-> {}, commits |-> <<>>,
             getFails |-> FALSE, updateFails |-> FALSE, thrown |-> FALSE]

\* m.getFails: globalState.get of the ledger throws; the catch block logs
\* and sets branchTimeMap = {}
LoadTrackedTimes(m) ==
    IF m.getFails THEN [m EXCEPT !.branchTimeMap = EmptyMap]
    ELSE [m EXCEPT !.branchTimeMap = m.globalState.branchTimeMap]

\* the try block left out: the exception leaves saveTrackedTimes
SaveTrackedTimes_Uncaught(m) ==
    IF m.updateFails THEN [m EXCEPT !.thrown = TRUE]
    ELSE [m EXCEPT !.globalState.branchTimeMap = m.branchTimeMap]

\* m.updateFails: globalState.update of the ledger throws; the catch block
\* logs and saveTrackedTimes returns
SaveTrackedTimes(m) ==
    IF m.updateFails THEN m
    ELSE [m EXCEPT !.globalState.branchTimeMap = m.branchTimeMap]

GetCurrentWorkspaceBranches(map, ws) ==
    IF ws = NoWorkspace THEN EmptyMap ELSE LedgerGet(map, ws)

UpdateBranchTime(m, ws, branch, seconds) ==
    IF ws = NoWorkspace THEN m
    ELSE SaveTrackedTimes(
            [m EXCEPT !.branchTimeMap = LedgerAdd(@, ws, branch, seconds)])

\* only the branch of the marker removed
ClearSessionData_BranchOnly(m) ==
    [m EXCEPT !.globalState.lastTrackedBranch = ""]

ClearSessionData(m) ==
    [m EXCEPT !.globalState.lastTrackedBranch = "",
              !.globalState.lastTrackingStart = 0,
              !.globalState.currentWorkspace = NoWorkspace]

\* the timer before left running
ClearIdleTimer_Never(m) == m

\* clearTimeout(idleTimer) when idleTimer is set; the handle is kept
ClearIdleTimer(m) ==
    IF m.idleTimer # 0 THEN [m EXCEPT !.timers = @ \ {m.idleTimer}] ELSE m

\* the idle window doubled
ResetIdleTimer_Late(m, t) ==
    LET c == ClearIdleTimer(m)
    IN [c EXCEPT !.idleTimer = t + 2 * IdleTimeoutMs,
                 !.timers = @ \cup {t + 2 * IdleTimeoutMs}]

\* a timer is named by the time it is due
ResetIdleTimer(m, t) ==
    LET c == ClearIdleTimer(m)
    IN [c EXCEPT !.idleTimer = t + IdleTimeoutMs,
                 !.timers = @ \cup {t + IdleTimeoutMs}]

\* the session closed only once its idle timer is due
StopAndLogTime_IfTimerDue(m, ws, isCleanExit, t) ==
    IF m.trackingStart = 0 \/ m.currentBranch = "" \/ t < m.idleTimer THEN m
    ELSE ClearIdleTimer(
            [UpdateBranchTime(m, ws, m.currentBranch,
                              DurationSec(m.trackingStart, t))
                EXCEPT !.trackingStart = 0, !.currentBranch = "",
                       !.commits = Append(@, [branch |-> m.currentBranch,
                                              seconds |-> DurationSec(
                                                  m.trackingStart, t)])])

\* only trackingStart reset, currentBranch kept
StopAndLogTime_KeepsBranch(m, ws, isCleanExit, t) ==
    IF m.trackingStart = 0 \/ m.currentBranch = "" THEN m
    ELSE LET durationSec == DurationSec(m.trackingStart, t)
             u == UpdateBranchTime(m, ws, m.currentBranch, durationSec)
             c == IF isCleanExit THEN ClearSessionData(u) ELSE u
         IN ClearIdleTimer(
                [c EXCEPT !.trackingStart = 0,
                          !.commits = Append(@, [branch |-> m.currentBranch,
                                                 seconds |-> durationSec])])

StopAndLogTime(m, ws, isCleanExit, t) ==
    IF m.trackingStart = 0 \/ m.currentBranch = "" THEN m
    ELSE LET durationSec == DurationSec(m.trackingStart, t)
             u == UpdateBranchTime(m, ws, m.currentBranch, durationSec)
             c == IF isCleanExit THEN ClearSessionData(u) ELSE u
         IN IF u.thrown THEN u
            ELSE ClearIdleTimer(
                [c EXCEPT !.trackingStart = 0, !.currentBranch = "",
                          !.commits = Append(@, [branch |-> m.currentBranch,
                                                 seconds |-> durationSec])])

\* the early return left out
SameBranchOpen_Never(m, branch) == FALSE

\* the early return of startTrackingIfBranchFound
SameBranchOpen(m, branch) == branch = m.lastTrackedBranch /\ m.trackingStart # 0

\* the marker not written
SaveSessionData_None(m, ws) == m

SaveSessionData(m, ws) ==
    [m EXCEPT !.globalState.lastTrackedBranch = m.currentBranch,
              !.globalState.lastTrackingStart = m.trackingStart,
              !.globalState.currentWorkspace = ws]

\* a failed resolution taken for the end of the session
StartTrackingIfBranchFound_StopsOnFailure(m, ws, branch, t) ==
    IF branch = "" THEN StopAndLogTime(m, ws, FALSE, t)
    ELSE IF SameBranchOpen(m, branch) THEN m
    ELSE SaveSessionData(
            ResetIdleTimer(
                [StopAndLogTime(m, ws, FALSE, t)
                    EXCEPT !.currentBranch = branch,
                           !.lastTrackedBranch = branch,
                           !.trackingStart = t], t), ws)

StartTrackingIfBranchFound(m, ws, branch, t) ==
    IF branch = "" THEN m
    ELSE IF SameBranchOpen(m, branch) THEN m
    ELSE LET s == StopAndLogTime(m, ws, FALSE, t)
             n == [s EXCEPT !.currentBranch = branch,
                            !.lastTrackedBranch = branch,
                            !.trackingStart = t]
         IN IF s.thrown THEN s
            ELSE SaveSessionData(ResetIdleTimer(n, t), ws)

\* getGitBranchName, in the folder ws with the repository in state repo
GetGitBranchName(ws, repo) ==
    IF ws = <<>> THEN ""
    ELSE IF ~repo.dotGit THEN ""
    ELSE IF repo.throws THEN ""
    ELSE repo.stdout

\* the boundary taken on the other side
IsFreshSession_Inclusive(age) == age <= MAX_SESSION_AGE_MS

\* the age test of the recovery
IsFreshSession(age) == age < MAX_SESSION_AGE_MS

\* whether the recovery considers the stored marker at all
MarkerMatches(g, ws) ==
    g.lastTrackedBranch # "" /\ g.lastTrackingStart # 0 /\ g.currentWorkspace = ws

\* the session resumed without an idle timer
Recover_NoTimer(m, ws, t) ==
    LET g == m.globalState
    IN IF MarkerMatches(g, ws)
       THEN IF IsFreshSession(t - g.lastTrackingStart)
            THEN [m EXCEPT !.currentBranch = g.lastTrackedBranch,
                           !.lastTrackedBranch = g.lastTrackedBranch,
                           !.trackingStart = g.lastTrackingStart]
            ELSE ClearSessionData(m)
       ELSE m

\* the session recovery of activate
Recover(m, ws, t) ==
    LET g == m.globalState
    IN IF MarkerMatches(g, ws)
       THEN IF IsFreshSession(t - g.lastTrackingStart)
            THEN ResetIdleTimer(
                    [m EXCEPT !.currentBranch = g.lastTrackedBranch,
                              !.lastTrackedBranch = g.lastTrackedBranch,
                              !.trackingStart = g.lastTrackingStart], t)
            ELSE ClearSessionData(m)
       ELSE m

\* the open session dropped together with the entry
ClearWorkspace_DropsSession(m, ws, selection) ==
    IF selection = "Yes, Clear All" /\ ws \in DOMAIN m.branchTimeMap
    THEN SaveTrackedTimes([m EXCEPT !.branchTimeMap = LedgerDelete(@, ws),
                                    !.trackingStart = 0,
                                    !.currentBranch = ""])
    ELSE m

\* the .then callback of clearWorkspaceTimeData, given the button chosen
ClearWorkspace(m, ws, selection) ==
    IF selection = "Yes, Clear All" /\ ws \in DOMAIN m.branchTimeMap
    THEN SaveTrackedTimes([m EXCEPT !.branchTimeMap = LedgerDelete(@, ws)])
    ELSE m

Selections == {"Yes, Clear All", "Cancel"}

---------------------------------------------------------------------------
(* History *)

\* the listeners that call startTrackingIfBranchFound and nothing else;
\* they are one event, "signal", in the record of the last handler
SignalSources == {"activity", "command", "focusGained"}
SignalKinds == {"signal"}

NoRun == [start |-> 0, secs |-> 0, stops |-> 0, end |-> 0]
ScnOff == [step |-> 9, t0 |-> 0]

Event(kind, branch) == [kind |-> kind, branch |-> branch]

Recorded(ev) ==
    IF ev.kind \in SignalSources THEN Event("signal", ev.branch) ELSE ev

\* a handler that stops one session and starts the next
IsSwitch(m) == Len(m.commits) > 0 /\ m.trackingStart # 0

\* the run of back-to-back sessions: its first start, the seconds and the
\* number of sessions committed so far, and the time of its final stop
RunNext(m, wasTracking) ==
    IF Len(m.commits) > 0 /\ run.start # 0
    THEN [run EXCEPT !.secs = @ + m.commits[1].seconds,
                     !.stops = @ + 1,
                     !.end = IF m.trackingStart # 0 THEN 0 ELSE now]
    ELSE IF ~wasTracking /\ m.trackingStart # 0
    THEN [start |-> m.trackingStart, secs |-> 0, stops |-> 0, end |-> 0]
    ELSE IF run.end # 0 THEN NoRun
    ELSE run

\* the end-to-end scenario: session on main at t0, activity at t0 + 100 s,
\* focus lost at t0 + 300 s, focus gained (and activity) at t0 + 400 s,
\* focus lost at t0 + 450 s; step counts the events matched so far
ScnNext(m, wasTracking, ev) ==
    LET k == ev.kind
        main == ev.branch = "main"
    IN IF k \in {"tick", "idle"} THEN scn
       ELSE IF scn.step = 0
       THEN IF ~wasTracking /\ m.trackingStart # 0
            THEN IF k \in SignalSources /\ main /\ branchTimeMap = EmptyMap
                 THEN [step |-> 1, t0 |-> now]
                 ELSE ScnOff
            ELSE scn
       ELSE IF scn.step = 1 /\ k \in {"activity", "command"} /\ main
               /\ now = scn.t0 + 100000
       THEN [scn EXCEPT !.step = 2]
       ELSE IF scn.step = 2 /\ k = "focusLost" /\ now = scn.t0 + 300000
       THEN [scn EXCEPT !.step = 3]
       ELSE IF scn.step = 3 /\ k = "focusGained" /\ main
               /\ now = scn.t0 + 400000
       THEN [scn EXCEPT !.step = 4]
       ELSE IF scn.step = 4 /\ k \in {"activity", "command"} /\ main
               /\ now = scn.t0 + 400000
       THEN scn
       ELSE IF scn.step = 4 /\ k = "focusLost" /\ now = scn.t0 + 450000
       THEN [scn EXCEPT !.step = 5]
       ELSE ScnOff

Observe(m, wasTracking, ev) ==
    /\ lastEvent' = Recorded(ev)
    /\ run' = RunNext(m, wasTracking)
    /\ lastActivityAt' = IF \/ ev.kind = "selection"
                            \/ ev.kind \in SignalSources /\ ev.branch # ""
                         THEN now
                         ELSE lastActivityAt
    /\ resumedAt' = IF ev.kind = "activate" /\ m.trackingStart # 0 THEN now
                    ELSE IF m.trackingStart = 0 THEN 0 ELSE resumedAt
    /\ scn' = ScnNext(m, wasTracking, ev)

\* the state a handler leaves
Apply(m) ==
    /\ trackingStart' = m.trackingStart
    /\ currentBranch' = m.currentBranch
    /\ branchTimeMap' = m.branchTimeMap
    /\ idleTimer' = m.idleTimer
    /\ lastTrackedBranch' = m.lastTrackedBranch
    /\ globalState' = m.globalState
    /\ timers' = m.timers
    /\ hostError' = m.thrown
    /\ UNCHANGED otherBranchTimeMap

Handle(m, ev) ==
    /\ IsSwitch(m) => run.stops < MaxSwitches
    /\ Apply(m)
    /\ Observe(m, trackingStart # 0, ev)
    /\ UNCHANGED <<currentWorkspace, workspaceFolder, now, proc, ticks, lives>>

---------------------------------------------------------------------------
(* The state after the module is loaded and before activate *)

Init ==
    /\ trackingStart = 0
    /\ currentBranch = ""
    /\ branchTimeMap = EmptyMap
    /\ idleTimer = 0
    /\ lastTrackedBranch = ""
    /\ currentWorkspace = NoWorkspace
    /\ globalState = [branchTimeMap |-> EmptyMap, lastTrackedBranch |-> "",
                      lastTrackingStart |-> 0, currentWorkspace |-> NoWorkspace]
    /\ workspaceFolder = NoFolder
    /\ now = Epoch
    /\ timers = {}
    /\ proc = "off"
    /\ lastEvent = Event("init", "")
    /\ ticks = 0
    /\ lives = 0
    /\ run = NoRun
    /\ lastActivityAt = 0
    /\ resumedAt = 0
    /\ scn = [step |-> 0, t0 |-> 0]
    /\ hostError = FALSE
    /\ otherBranchTimeMap = EmptyMap

\* the state activate leaves when the first process starts in the first
\* workspace: nothing stored, nothing to recover
InitActive ==
    /\ trackingStart = 0
    /\ currentBranch = ""
    /\ branchTimeMap = EmptyMap
    /\ idleTimer = 0
    /\ lastTrackedBranch = ""
    /\ currentWorkspace = GetWorkspaceId(PathA)
    /\ globalState = [branchTimeMap |-> EmptyMap, lastTrackedBranch |-> "",
                      lastTrackingStart |-> 0, currentWorkspace |-> NoWorkspace]
    /\ workspaceFolder = PathA
    /\ now = Epoch
    /\ timers = {}
    /\ proc = "on"
    /\ lastEvent = Event("activate", "")
    /\ ticks = 0
    /\ lives = 1
    /\ run = NoRun
    /\ lastActivityAt = 0
    /\ resumedAt = 0
    /\ scn = [step |-> 0, t0 |-> 0]
    /\ hostError = FALSE
    /\ otherBranchTimeMap = EmptyMap

\* the state the first signal on main leaves in that process, at once:
\* the first session of the workspace is open
InitSession ==
    /\ trackingStart = Epoch
    /\ currentBranch = "main"
    /\ branchTimeMap = EmptyMap
    /\ idleTimer = Epoch + IdleTimeoutMs
    /\ lastTrackedBranch = "main"
    /\ currentWorkspace = GetWorkspaceId(PathA)
    /\ globalState = [branchTimeMap |-> EmptyMap, lastTrackedBranch |-> "main",
                      lastTrackingStart |-> Epoch,
                      currentWorkspace |-> GetWorkspaceId(PathA)]
    /\ workspaceFolder = PathA
    /\ now = Epoch
    /\ timers = {Epoch + IdleTimeoutMs}
    /\ proc = "on"
    /\ lastEvent = Event("signal", "main")
    /\ ticks = 0
    /\ lives = 1
    /\ run = [start |-> Epoch, secs |-> 0, stops |-> 0, end |-> 0]
    /\ lastActivityAt = Epoch
    /\ resumedAt = 0
    /\ scn = [step |-> 1, t0 |-> Epoch]
    /\ hostError = FALSE
    /\ otherBranchTimeMap = EmptyMap

---------------------------------------------------------------------------
(* The handlers *)

\* activate with a folder open, in a new extension process
Activate(p) ==
    /\ proc = "off"
    /\ lives < MaxLives
    /\ lives' = lives + 1
    /\ LET ws == GetWorkspaceId(p)
           m  == Recover(LoadTrackedTimes(FreshMem), ws, now)
       IN /\ Apply(m)
          /\ Observe(m, FALSE, Event("activate", ""))
          /\ currentWorkspace' = ws
    /\ workspaceFolder' = p
    /\ proc' = "on"
    /\ UNCHANGED <<now, ticks>>

\* activate with no folder open: warns and returns, registering nothing
ActivateNoFolder ==
    /\ proc = "off"
    /\ lives < MaxLives
    /\ lives' = lives + 1
    /\ Apply(FreshMem)
    /\ Observe(FreshMem, FALSE, Event("activate", ""))
    /\ currentWorkspace' = NoWorkspace
    /\ workspaceFolder' = NoFolder
    /\ proc' = "inert"
    /\ UNCHANGED <<now, ticks>>

\* onDidChangeWindowState, state.focused
OnFocusGained(branch) ==
    /\ proc = "on"
    /\ Handle(StartTrackingIfBranchFound(Mem, currentWorkspace, branch, now),
              Event("focusGained", branch))

\* onDidChangeWindowState, not state.focused
OnFocusLost ==
    /\ proc = "on"
    /\ Handle(StopAndLogTime(Mem, currentWorkspace, FALSE, now),
              Event("focusLost", ""))

OnDidChangeTextEditorSelection ==
    /\ proc = "on"
    /\ Handle(ResetIdleTimer(Mem, now), Event("selection", ""))

OnDidChangeActiveTextEditor(branch) ==
    /\ proc = "on"
    /\ Handle(StartTrackingIfBranchFound(Mem, currentWorkspace, branch, now),
              Event("activity", branch))

OnDidChangeTextDocument(branch) ==
    /\ proc = "on"
    /\ Handle(StartTrackingIfBranchFound(Mem, currentWorkspace, branch, now),
              Event("activity", branch))

\* the command branchTimer.start
StartCommand(branch) ==
    /\ proc = "on"
    /\ Handle(StartTrackingIfBranchFound(Mem, currentWorkspace, branch, now),
              Event("command", branch))

\* the callback resetIdleTimer scheduled, when its timer is due
IdleTimerFires ==
    /\ proc = "on"
    /\ \E t \in timers :
          /\ now >= t
          /\ Handle(StopAndLogTime([Mem EXCEPT !.timers = @ \ {t}],
                                   currentWorkspace, FALSE, now),
                    Event("idle", ""))

\* the command branchTimer.clearTimeData.  Showing the warning changes
\* nothing; the step is the .then callback, which runs when the user
\* answers, in whatever state the extension is in by then
ClearWorkspaceTimeData(selection) ==
    /\ proc = "on"
    /\ Handle(ClearWorkspace(Mem, currentWorkspace, selection),
              Event(IF selection = "Yes, Clear All" THEN "clearYes"
                    ELSE "clearNo", ""))

\* deactivate, after which the extension process ends
Deactivate ==
    /\ proc \in {"on", "inert"}
    /\ LET m == StopAndLogTime(Mem, currentWorkspace, TRUE, now)
       IN /\ Apply([m EXCEPT !.timers = {}])
          /\ Observe(m, trackingStart # 0, Event("deactivate", ""))
    /\ proc' = "off"
    /\ UNCHANGED <<currentWorkspace, workspaceFolder, now, ticks, lives>>

\* the extension process dies without deactivate: its memory and its
\* timers are gone, globalState stays
Crash ==
    /\ proc \in {"on", "inert"}
    /\ trackingStart' = 0
    /\ currentBranch' = ""
    /\ branchTimeMap' = EmptyMap
    /\ idleTimer' = 0
    /\ lastTrackedBranch' = ""
    /\ timers' = {}
    /\ lastEvent' = Event("crash", "")
    /\ run' = NoRun
    /\ scn' = IF scn.step = 0 THEN scn ELSE ScnOff
    /\ currentWorkspace' = NoWorkspace
    /\ workspaceFolder' = NoFolder
    /\ proc' = "off"
    /\ hostError' = FALSE
    /\ UNCHANGED <<globalState, now, ticks, lives, lastActivityAt,
                   resumedAt, otherBranchTimeMap>>

\* the order in which a handler requests its updates: the ledger by
\* saveTrackedTimes, then the three keys of the marker
StorageKeys == <<"branchTimeMap", "lastTrackedBranch", "lastTrackingStart",
                 "currentWorkspace">>

\* the storage when only the first k of the updates that lead from old to
\* new have completed
Completed(old, new, k) ==
    [key \in DOMAIN old |->
        IF \E i \in 1..k : StorageKeys[i] = key THEN new[key] ELSE old[key]]

\* how many of the requested updates have completed when the process ends
\* before all have
UpdatesCompleted == {0}

\* deactivate, after which the extension process ends before the updates
\* deactivate requested have completed: globalState.update returns a
\* Thenable, which neither saveTrackedTimes nor deactivate awaits or
\* returns to the host
DeactivateUnflushed(k) ==
    /\ proc = "on"
    /\ LET m == StopAndLogTime(Mem, currentWorkspace, TRUE, now)
       IN /\ m.globalState # globalState
          /\ Apply([m EXCEPT !.timers = {},
                             !.globalState = Completed(globalState,
                                                       m.globalState, k)])
          /\ Observe(m, trackingStart # 0, Event("deactivateLost", ""))
    /\ proc' = "off"
    /\ UNCHANGED <<currentWorkspace, workspaceFolder, now, ticks, lives>>

\* the handlers that stop a session, run while globalState.update of the
\* ledger throws
OnFocusLostUpdateFails ==
    /\ proc = "on"
    /\ trackingStart # 0
    /\ Handle(StopAndLogTime([Mem EXCEPT !.updateFails = TRUE],
                             currentWorkspace, FALSE, now),
              Event("focusLostFailed", ""))

IdleTimerFiresUpdateFails ==
    /\ proc = "on"
    /\ trackingStart # 0
    /\ \E t \in timers :
          /\ now >= t
          /\ Handle(StopAndLogTime([Mem EXCEPT !.timers = @ \ {t},
                                              !.updateFails = TRUE],
                                   currentWorkspace, FALSE, now),
                    Event("idleFailed", ""))

\* activate while globalState.get of the ledger throws
ActivateGetFails(p) ==
    /\ proc = "off"
    /\ lives < MaxLives
    /\ lives' = lives + 1
    /\ LET ws == GetWorkspaceId(p)
           m  == Recover(LoadTrackedTimes([FreshMem EXCEPT !.getFails = TRUE]),
                         ws, now)
       IN /\ Apply(m)
          /\ Observe(m, FALSE, Event("activateFailed", ""))
          /\ currentWorkspace' = ws
    /\ workspaceFolder' = p
    /\ proc' = "on"
    /\ UNCHANGED <<now, ticks>>

\* the clock advances; a due timer runs before the clock passes it
Tick(d) ==
    /\ ticks < MaxTicks
    /\ d > 0
    /\ \A t \in timers : now + d <= t
    /\ now' = now + d
    /\ ticks' = ticks + 1
    /\ lastEvent' = Event("tick", "")
    /\ UNCHANGED <<trackingStart, currentBranch, branchTimeMap, idleTimer,
                   lastTrackedBranch, currentWorkspace, globalState,
                   workspaceFolder, timers, proc, lives, run, lastActivityAt,
                   resumedAt, scn, hostError, otherBranchTimeMap>>

\* the clock advances to an instant of the end-to-end scenario
TickTo(t) ==
    /\ t > now
    /\ t <= ScenarioEnd
    /\ \A u \in timers : t <= u
    /\ now' = t
    /\ lastEvent' = Event("tick", "")
    /\ UNCHANGED <<trackingStart, currentBranch, branchTimeMap, idleTimer,
                   lastTrackedBranch, currentWorkspace, globalState,
                   workspaceFolder, timers, proc, ticks, lives, run,
                   lastActivityAt, resumedAt, scn, hostError,
                   otherBranchTimeMap>>

\* how many of the requested updates are in storage when the process
\* terminates between two of them
TornAfter == {1, 2, 3}

\* a signal starts a session and the process terminates while
\* startTrackingIfBranchFound is updating the storage, after k updates
TerminateInStart(branch, k) ==
    /\ proc = "on"
    /\ LET m == StartTrackingIfBranchFound(Mem, currentWorkspace, branch, now)
       IN /\ m.globalState # globalState
          /\ globalState' = Completed(globalState, m.globalState, k)
    /\ trackingStart' = 0
    /\ currentBranch' = ""
    /\ branchTimeMap' = EmptyMap
    /\ idleTimer' = 0
    /\ lastTrackedBranch' = ""
    /\ timers' = {}
    /\ lastEvent' = Event("tornStart", branch)
    /\ run' = NoRun
    /\ scn' = IF scn.step = 0 THEN scn ELSE ScnOff
    /\ currentWorkspace' = NoWorkspace
    /\ workspaceFolder' = NoFolder
    /\ proc' = "off"
    /\ hostError' = FALSE
    /\ UNCHANGED <<now, ticks, lives, lastActivityAt, resumedAt,
                   otherBranchTimeMap>>

\* the window of the second workspace: its extension process starts, and
\* loads the ledger into its own branchTimeMap
OtherActivate ==
    /\ otherBranchTimeMap # globalState.branchTimeMap
    /\ otherBranchTimeMap' =
          LoadTrackedTimes([FreshMem EXCEPT !.globalState = globalState])
              .branchTimeMap
    /\ lastEvent' = Event("otherActivate", "")
    /\ UNCHANGED <<trackingStart, currentBranch, branchTimeMap, idleTimer,
                   lastTrackedBranch, currentWorkspace, globalState,
                   workspaceFolder, now, timers, proc, ticks, lives, run,
                   lastActivityAt, resumedAt, scn, hostError>>

\* that process stops a session on branch: updateBranchTime on its own
\* branchTimeMap, for a session as long as the idle window
OtherCommit(branch) ==
    LET ws   == GetWorkspaceId(PathB)
        secs == DurationSec(now, now + IdleTimeoutMs)
        old  == LedgerGet(otherBranchTimeMap, ws)
        o    == UpdateBranchTime([FreshMem EXCEPT
                                     !.branchTimeMap = otherBranchTimeMap],
                                 ws, branch, secs)
    IN /\ branch \in DOMAIN old => old[branch] < MaxSwitches * secs
       /\ otherBranchTimeMap' = o.branchTimeMap
       /\ globalState' = o.globalState
       /\ lastEvent' = Event("otherCommit", branch)
       /\ UNCHANGED <<trackingStart, currentBranch, branchTimeMap, idleTimer,
                      lastTrackedBranch, currentWorkspace, workspaceFolder,
                      now, timers, proc, ticks, lives, run, lastActivityAt,
                      resumedAt, scn, hostError>>

\* signals arrive while the clock may still advance by steps; after that
\* nothing arrives any more
Quiet == ticks >= MaxTicks

\* with no signal arriving, the clock reaches the next pending timer
QuietTick ==
    /\ Quiet
    /\ timers # {}
    /\ \A t \in timers : now < t
    /\ now' = CHOOSE t \in timers : \A u \in timers : t <= u
    /\ lastEvent' = Event("tick", "")
    /\ UNCHANGED <<trackingStart, currentBranch, branchTimeMap, idleTimer,
                   lastTrackedBranch, currentWorkspace, globalState,
                   workspaceFolder, timers, proc, ticks, lives, run,
                   lastActivityAt, resumedAt, scn, hostError,
                   otherBranchTimeMap>>

\* the handlers of the session state machine, in one extension process
SessionHandlers ==
    \/ \E b \in GitResults : OnFocusGained(b)
    \/ OnFocusLost
    \/ OnDidChangeTextEditorSelection
    \/ \E b \in GitResults : OnDidChangeActiveTextEditor(b)
    \/ \E b \in GitResults : OnDidChangeTextDocument(b)
    \/ \E b \in GitResults : StartCommand(b)
    \/ IdleTimerFires
    \/ Deactivate
    \/ Crash

Handlers ==
    \/ \E p \in Paths : Activate(p)
    \/ ActivateNoFolder
    \/ SessionHandlers
    \/ \E s \in Selections : ClearWorkspaceTimeData(s)
    \/ \E k \in UpdatesCompleted : DeactivateUnflushed(k)

\* a pending timer's due time is always an instant the clock can stop at
DueSteps == {t - now : t \in timers}

Next == Handlers \/ \E d \in TickSteps \cup DueSteps : Tick(d)

NextFine == SessionHandlers \/ \E d \in FineSteps \cup DueSteps : Tick(d)

NextScenario == SessionHandlers \/ \E t \in ScenarioTimes \cup timers : TickTo(t)

\* windows opened on folders of IdentityPaths, one after the other
NextIdentity ==
    \/ \E p \in IdentityPaths : Activate(p)
    \/ \E b \in GitResults : OnFocusGained(b)
    \/ OnFocusLost
    \/ Deactivate
    \/ \E d \in TickSteps \cup DueSteps : Tick(d)

Spec == Init /\ [][Next]_vars

SpecIdentity == Init /\ [][NextIdentity]_vars

\* one extension process, just activated in the first workspace on empty
\* storage, with a clock of fine steps
SpecFine == InitActive /\ [][NextFine]_vars

\* the same process, with the clock of the end-to-end scenario
SpecScenario == InitActive /\ [][NextScenario]_vars

\* processes in the first workspace, one after the other, with a storage
\* whose ledger key may fail to be read or written
NextFaults ==
    \/ Activate(PathA)
    \/ ActivateGetFails(PathA)
    \/ \E b \in GitResults : OnFocusGained(b)
    \/ OnFocusLost
    \/ OnFocusLostUpdateFails
    \/ OnDidChangeTextEditorSelection
    \/ IdleTimerFires
    \/ IdleTimerFiresUpdateFails
    \/ Deactivate
    \/ \E d \in TickSteps \cup DueSteps : Tick(d)

SpecFaults == InitActive /\ [][NextFaults]_vars

\* the first workspace from the start of its first session on: stops,
\* shutdowns, crashes and startups in any order
NextRestart ==
    \/ Activate(PathA)
    \/ SessionHandlers
    \/ \E d \in TickSteps \cup DueSteps : Tick(d)

SpecRestart == InitSession /\ [][NextRestart]_vars

\* processes in the first workspace, one after the other; events arrive
\* until Quiet, then only the clock and the timers run.  The clock always
\* advances and the event loop runs every due timer callback.
ArrivingEvents ==
    \/ Activate(PathA)
    \/ \E b \in GitResults : OnFocusGained(b)
    \/ OnFocusLost
    \/ OnDidChangeTextEditorSelection
    \/ \E b \in GitResults : OnDidChangeTextDocument(b)
    \/ Deactivate
    \/ Crash

ClockAdvances == \E d \in FineSteps \cup DueSteps : Tick(d)

NextLive ==
    \/ ~Quiet /\ ArrivingEvents
    \/ IdleTimerFires
    \/ ClockAdvances
    \/ QuietTick

SpecLive ==
    /\ InitActive
    /\ [][NextLive]_vars
    /\ WF_vars(IdleTimerFires)
    /\ WF_vars(ClockAdvances)
    /\ WF_vars(QuietTick)

\* two windows, on the first and on the second workspace, each with its
\* own extension process, sharing globalState; both started on empty
\* storage, the second one earlier
OtherEvents == {"otherActivate", "otherCommit"}

NextWindows ==
    \/ \E b \in GitResults : OnFocusGained(b)
    \/ OnFocusLost
    \/ IdleTimerFires
    \/ OtherActivate
    \/ \E b \in Branches : OtherCommit(b)
    \/ \E d \in TickSteps \cup DueSteps : Tick(d)

SpecWindows == InitActive /\ [][NextWindows]_vars

\* processes in the first workspace, one after the other, which may
\* terminate between two updates of the storage
NextTorn ==
    \/ Activate(PathA)
    \/ \E b \in GitResults : OnFocusGained(b)
    \/ OnFocusLost
    \/ Deactivate
    \/ \E b \in Branches, k \in TornAfter : TerminateInStart(b, k)
    \/ \E k \in TornAfter : DeactivateUnflushed(k)
    \/ \E d \in TickSteps \cup DueSteps : Tick(d)

SpecTorn == InitActive /\ [][NextTorn]_vars

\* one workspace whose repository may be on a branch, in detached HEAD
\* state, broken or missing when a handler asks for the branch
NextDetached ==
    \/ Activate(PathA)
    \/ \E r \in RepoStates :
          OnFocusGained(GetGitBranchName(workspaceFolder, r))
    \/ \E r \in RepoStates :
          OnDidChangeTextDocument(GetGitBranchName(workspaceFolder, r))
    \/ OnFocusLost
    \/ IdleTimerFires
    \/ Deactivate
    \/ Crash
    \/ \E d \in TickSteps \cup DueSteps : Tick(d)

SpecDetached == InitActive /\ [][NextDetached]_vars

---------------------------------------------------------------------------
(* Vocabulary of the properties *)

Tracking == proc = "on" /\ trackingStart # 0 /\ currentBranch # ""

MarkerPresent(g) ==
    g.lastTrackedBranch # "" \/ g.lastTrackingStart # 0
        \/ g.currentWorkspace # NoWorkspace

\* the marker in storage, as (workspace, branch, start)
MarkerOf(g) == <<g.currentWorkspace, g.lastTrackedBranch, g.lastTrackingStart>>

Has(map, w, b) == w \in DOMAIN map /\ b \in DOMAIN map[w]

\* the entry of workspace w is the same in both maps (absent in both, or
\* equal)
SameEntry(old, new, w) ==
    /\ (w \in DOMAIN old) = (w \in DOMAIN new)
    /\ LedgerGet(old, w) = LedgerGet(new, w)

\* the seconds of branch b in workspace w, 0 when there is no entry
Seconds(map, w, b) == IF Has(map, w, b) THEN map[w][b] ELSE 0

\* new is old with secs added to the entry of (ws, b), which exists in new,
\* and every other entry as it was
OneCommit(old, new, ws, b, secs) ==
    /\ Has(new, ws, b)
    /\ new[ws][b] = Seconds(old, ws, b) + secs
    /\ \A w \in DOMAIN old \cup DOMAIN new, c \in Branches :
          <<w, c>> # <<ws, b>>
          => /\ Has(new, w, c) <=> Has(old, w, c)
             /\ Seconds(new, w, c) = Seconds(old, w, c)

\* milliseconds from the first start of the finished run to its final stop
RunElapsed == run.end - run.start

\* the later of the last activity signal and the startup that resumed
LastSignalOrResume ==
    IF lastActivityAt < resumedAt THEN resumedAt ELSE lastActivityAt

---------------------------------------------------------------------------
(* C1 *)

\* C1, as stated: after the final stop of a run of back-to-back sessions
\* (branch switches only, no idle gap, no focus loss) the committed seconds
\* equal the elapsed time from the first session start within one second.
C1_SumWithinOneSecond ==
    run.end # 0 =>
        /\ RunElapsed - 1000 * run.secs <= 1000
        /\ 1000 * run.secs - RunElapsed <= 1000

\* C1, amended: the committed seconds never exceed the elapsed time, and
\* fall short of it by less than one second for each session committed.
C1_SumWithinOneSecondPerSession ==
    run.end # 0 =>
        /\ 1000 * run.secs <= RunElapsed
        /\ RunElapsed - 1000 * run.secs < 1000 * run.stops

\* a run of two sessions that lost more than a second to rounding
C1_Witness ==
    run.end # 0 /\ run.stops >= 2 /\ RunElapsed - 1000 * run.secs > 1000

---------------------------------------------------------------------------
(* C2 *)

\* C2: a signal (activity, focus gained, manual start) that resolves to the
\* branch of the open session leaves trackingStart, the persisted marker
\* and ledger, and the in-memory ledger unchanged.
C2_SameBranchSignalIdempotent ==
    [][(/\ Tracking
        /\ lastEvent'.kind \in SignalKinds
        /\ lastEvent'.branch = currentBranch)
       => /\ trackingStart' = trackingStart
          /\ currentBranch' = currentBranch
          /\ globalState' = globalState
          /\ branchTimeMap' = branchTimeMap]_vars

\* a same-branch signal was processed in a session that started earlier
C2_Witness ==
    /\ Tracking
    /\ lastEvent.kind \in SignalKinds
    /\ lastEvent.branch = currentBranch
    /\ trackingStart < now

---------------------------------------------------------------------------
(* C3 *)

\* the idle callback stops an open session: one commit of
\* floor((now - trackingStart) / 1000) seconds, then Idle with no timer left
C3_IdleStop ==
    /\ trackingStart' = 0
    /\ currentBranch' = ""
    /\ timers' = {}
    /\ branchTimeMap' = LedgerAdd(branchTimeMap, currentWorkspace,
                                  currentBranch,
                                  DurationSec(trackingStart, now))
    /\ globalState'.branchTimeMap = branchTimeMap'

\* C3, as stated: a session is stopped by the idle callback no later than
\* one idle timeout after the last activity signal, by exactly one commit,
\* which exceeds the time up to that signal by at most the idle timeout.
C3_IdleCutoffAfterLastActivity ==
    /\ [](Tracking =>
            \E t \in timers : t <= lastActivityAt + IdleTimeoutMs)
    /\ [][(Tracking /\ lastEvent'.kind = "idle")
          => /\ C3_IdleStop
             /\ now - lastActivityAt <= IdleTimeoutMs]_vars

\* C3, amended: the same, counted from the later of the last activity
\* signal and the startup that resumed the session.
C3_IdleCutoffAfterSignalOrResume ==
    /\ [](Tracking =>
            \E t \in timers : t <= LastSignalOrResume + IdleTimeoutMs)
    /\ [][(Tracking /\ lastEvent'.kind = "idle")
          => /\ C3_IdleStop
             /\ now - LastSignalOrResume <= IdleTimeoutMs]_vars

\* the idle callback has just stopped and committed a session
C3_Witness ==
    /\ lastEvent.kind = "idle"
    /\ run.end = now
    /\ run.secs >= 300
    /\ trackingStart = 0

---------------------------------------------------------------------------
(* C4 *)

\* C4: activate with a marker of the current workspace resumes the marker's
\* session with its start time when the marker is younger than ten
\* minutes, and otherwise stays Idle and clears the marker; neither
\* commits anything.  A stop of the resumed session commits
\* floor((now - marker start) / 1000) seconds to the marker's branch.
C4_RecoveryWindow ==
    [][/\ (/\ lastEvent'.kind = "activate"
           /\ proc' = "on"
           /\ MarkerMatches(globalState, currentWorkspace'))
          => /\ globalState'.branchTimeMap = globalState.branchTimeMap
             /\ branchTimeMap' = globalState.branchTimeMap
             /\ IF now - globalState.lastTrackingStart < 10 * 60 * 1000
                THEN /\ trackingStart' = globalState.lastTrackingStart
                     /\ currentBranch' = globalState.lastTrackedBranch
                     /\ globalState' = globalState
                ELSE /\ trackingStart' = 0
                     /\ currentBranch' = ""
                     /\ ~MarkerPresent(globalState')
       /\ (/\ Tracking
           /\ resumedAt # 0
           /\ trackingStart' # trackingStart
           /\ lastEvent'.kind # "crash")
          => /\ trackingStart = globalState.lastTrackingStart
             /\ currentBranch = globalState.lastTrackedBranch
             /\ Has(branchTimeMap', currentWorkspace, currentBranch)
             /\ branchTimeMap'[currentWorkspace][currentBranch] =
                   (IF Has(branchTimeMap, currentWorkspace, currentBranch)
                    THEN branchTimeMap[currentWorkspace][currentBranch]
                    ELSE 0)
                   + (now - globalState.lastTrackingStart) \div 1000]_vars

\* a session resumed with a start time before this process started
C4_Witness ==
    /\ lastEvent.kind = "activate"
    /\ Tracking
    /\ trackingStart < now
    /\ resumedAt = now

---------------------------------------------------------------------------
(* C5 *)

\* C5: activate with a marker of another workspace stays Idle and clears
\* the marker from storage.
C5_ForeignMarkerCleared ==
    [][(/\ lastEvent'.kind = "activate"
        /\ proc' = "on"
        /\ MarkerPresent(globalState)
        /\ globalState.currentWorkspace # currentWorkspace')
       => /\ trackingStart' = 0
          /\ ~MarkerPresent(globalState')]_vars

---------------------------------------------------------------------------
(* C6 *)

\* C6: a step of the process running in workspace A, a commit in
\* particular, leaves the ledger entries of every other workspace as they
\* are, in memory and in storage, whatever their branch names.
C6_WorkspaceIsolation ==
    [][\A w \in WorkspaceIds :
          (proc = "on" /\ w # currentWorkspace /\ lastEvent'.kind # "crash")
          => /\ SameEntry(branchTimeMap, branchTimeMap', w)
             /\ SameEntry(globalState.branchTimeMap,
                          globalState'.branchTimeMap, w)]_vars

\* a commit to main has just been made in one workspace while the other
\* workspace holds an entry for main too
C6_Witness ==
    /\ proc = "on"
    /\ run.end = now
    /\ lastEvent.kind = "focusLost"
    /\ \A w \in WorkspaceIds : Has(globalState.branchTimeMap, w, "main")
    /\ \E w \in WorkspaceIds :
          /\ w # currentWorkspace
          /\ globalState.branchTimeMap[w]["main"] #
                 globalState.branchTimeMap[currentWorkspace]["main"]

---------------------------------------------------------------------------
(* C7 *)

\* C7: a confirmed clear leaves the current workspace with no entries (its
\* summary is the empty mapping), and leaves the entries of every other
\* workspace and the persisted marker as they are.
C7_ClearIsScoped ==
    [][lastEvent'.kind = "clearYes"
       => /\ GetCurrentWorkspaceBranches(branchTimeMap', currentWorkspace)
                = EmptyMap
          /\ currentWorkspace \notin DOMAIN branchTimeMap'
          /\ currentWorkspace \notin DOMAIN globalState'.branchTimeMap
          /\ \A w \in WorkspaceIds \ {currentWorkspace} :
                /\ SameEntry(branchTimeMap, branchTimeMap', w)
                /\ SameEntry(globalState.branchTimeMap,
                             globalState'.branchTimeMap, w)
          /\ globalState'.lastTrackedBranch = globalState.lastTrackedBranch
          /\ globalState'.lastTrackingStart = globalState.lastTrackingStart
          /\ globalState'.currentWorkspace = globalState.currentWorkspace]_vars

\* a clear has just been confirmed while another workspace has entries and
\* the persisted marker belongs to that other workspace
C7_Witness ==
    /\ lastEvent.kind = "clearYes"
    /\ MarkerPresent(globalState)
    /\ globalState.currentWorkspace # currentWorkspace
    /\ \E w \in WorkspaceIds \ {currentWorkspace} :
          Has(globalState.branchTimeMap, w, "main")

---------------------------------------------------------------------------
(* C8 *)

OnlyMain(seconds) == [b \in {"main"} |-> seconds]

\* C8: the session on main starts at t0 on an empty ledger; the activity at
\* t0 + 100 s commits nothing and leaves the session as it is; the focus
\* loss at t0 + 300 s leaves main = 300; the focus gain at t0 + 400 s opens
\* a session that starts at t0 + 400 s; the focus loss at t0 + 450 s leaves
\* main = 350.
C8_EndToEndScenario ==
    LET ws == currentWorkspace
    IN /\ (scn.step \in {1, 2} /\ now < scn.t0 + 300000)
          => /\ trackingStart = scn.t0
             /\ currentBranch = "main"
             /\ branchTimeMap = EmptyMap
             /\ globalState.branchTimeMap = EmptyMap
       /\ scn.step = 3
          => /\ trackingStart = 0
             /\ LedgerGet(branchTimeMap, ws) = OnlyMain(300)
             /\ LedgerGet(globalState.branchTimeMap, ws) = OnlyMain(300)
       /\ scn.step = 4
          => /\ trackingStart = scn.t0 + 400000
             /\ currentBranch = "main"
             /\ LedgerGet(branchTimeMap, ws) = OnlyMain(300)
             /\ LedgerGet(globalState.branchTimeMap, ws) = OnlyMain(300)
       /\ scn.step = 5
          => /\ trackingStart = 0
             /\ LedgerGet(branchTimeMap, ws) = OnlyMain(350)
             /\ LedgerGet(globalState.branchTimeMap, ws) = OnlyMain(350)

\* the scenario has run to its last event
C8_Witness == scn.step = 5 /\ lastEvent.kind = "focusLost"

---------------------------------------------------------------------------
(* C9 *)

\* C9: after deactivate the tracker is Idle and storage holds no marker.
C9_ShutdownClearsMarker ==
    [][lastEvent'.kind = "deactivate"
       => /\ trackingStart' = 0
          /\ ~MarkerPresent(globalState')]_vars

---------------------------------------------------------------------------
(* C10 *)

\* C10: every persisted entry is a natural number; an entry that exists
\* stays and does not decrease, unless its workspace is the current one and
\* a clear is confirmed; an entry appears only by the commit of the open
\* session, for the current workspace and the session's branch.
C10_LedgerMonotone ==
    [][LET old == globalState.branchTimeMap
           new == globalState'.branchTimeMap
       IN /\ \A w \in WorkspaceIds, b \in Branches :
                Has(new, w, b) => new[w][b] \in Nat
          /\ new # old =>
                \A w \in WorkspaceIds, b \in Branches :
                   /\ Has(old, w, b)
                      => \/ Has(new, w, b) /\ new[w][b] >= old[w][b]
                         \/ /\ lastEvent'.kind = "clearYes"
                            /\ w = currentWorkspace
                   /\ (~Has(old, w, b) /\ Has(new, w, b))
                      => /\ Tracking
                         /\ w = currentWorkspace
                         /\ b = currentBranch
                         /\ new[w][b] = (now - trackingStart) \div 1000]_vars

\* a commit has just raised an entry that earlier commits had made
C10_Witness ==
    /\ proc = "on"
    /\ run.end = now
    /\ run.secs > 0
    /\ \E b \in Branches :
          /\ Has(globalState.branchTimeMap, currentWorkspace, b)
          /\ globalState.branchTimeMap[currentWorkspace][b] > run.secs
          /\ run.stops = 1

---------------------------------------------------------------------------
(* C11 *)

\* C11: the commit is in storage when it returns: when deactivate stops an
\* open session and the process ends right after it returns, the storage
\* the next startup reads holds the ledger with the session's
\* floor((now - trackingStart) / 1000) seconds added.
C11_DurableCommit ==
    [][(Tracking /\ lastEvent'.kind \in {"deactivate", "deactivateLost"})
       => OneCommit(globalState.branchTimeMap, globalState'.branchTimeMap,
                    currentWorkspace, currentBranch,
                    (now - trackingStart) \div 1000)]_vars

---------------------------------------------------------------------------
(* C12 *)

\* C12: the identity of a window's folder is GetWorkspaceId of its path,
\* and a window opened on another folder than the one before has another
\* identity, a folder moved to another parent in particular.
C12_DistinctPathsDistinctIds ==
    [][(/\ lastEvent'.kind = "activate"
        /\ workspaceFolder # NoFolder
        /\ workspaceFolder' # NoFolder)
       => /\ currentWorkspace' = GetWorkspaceId(workspaceFolder')
          /\ currentWorkspace = GetWorkspaceId(workspaceFolder)
          /\ (currentWorkspace' = currentWorkspace)
                <=> (workspaceFolder' = workspaceFolder)]_vars

---------------------------------------------------------------------------
(* C13 *)

\* C13: a focus loss while Tracking, whatever is left of the idle window,
\* stops the session, commits floor((now - trackingStart) / 1000) seconds
\* to the session's branch and leaves the tracker Idle; a focus loss while
\* Idle leaves the ledger and the session as they are.
C13_FocusLossUnconditional ==
    [][lastEvent'.kind = "focusLost"
       => IF Tracking
          THEN /\ trackingStart' = 0
               /\ currentBranch' = ""
               /\ OneCommit(branchTimeMap, branchTimeMap', currentWorkspace,
                            currentBranch, (now - trackingStart) \div 1000)
               /\ globalState'.branchTimeMap = branchTimeMap'
          ELSE /\ trackingStart' = trackingStart
               /\ currentBranch' = currentBranch
               /\ branchTimeMap' = branchTimeMap
               /\ globalState' = globalState]_vars

\* a focus loss has just committed a session whose idle timer was not due
C13_Witness ==
    /\ lastEvent.kind = "focusLost"
    /\ run.end = now
    /\ run.stops = 1
    /\ run.secs > 0
    /\ trackingStart = 0
    /\ idleTimer > now

---------------------------------------------------------------------------
(* C14 *)

\* C14: a signal (activity, focus gained, manual start) whose branch
\* resolution fails leaves the session, the ledger, the persisted marker
\* and the idle timer as they are, and the extension running.
C14_ResolutionFailureNoTransition ==
    [][(lastEvent'.kind \in SignalKinds /\ lastEvent'.branch = "")
       => /\ trackingStart' = trackingStart
          /\ currentBranch' = currentBranch
          /\ lastTrackedBranch' = lastTrackedBranch
          /\ branchTimeMap' = branchTimeMap
          /\ globalState' = globalState
          /\ idleTimer' = idleTimer
          /\ timers' = timers
          /\ proc' = "on"]_vars

\* a resolution has just failed while a session is open and timed
C14_Witness ==
    /\ Tracking
    /\ lastEvent.kind \in SignalKinds
    /\ lastEvent.branch = ""
    /\ trackingStart < now
    /\ timers # {}

---------------------------------------------------------------------------
(* C15 *)

\* C15: a signal that resolves to a branch other than the open session's,
\* or to any branch while Idle, opens a session for that branch that starts
\* now, writes the marker (workspace, branch, now) and leaves exactly the
\* idle timer due one idle window from now; when a session was open, its
\* floor((now - trackingStart) / 1000) seconds are committed to its branch
\* by one commit, and when none was, nothing is committed.
C15_BranchSwitch ==
    [][(/\ lastEvent'.kind \in SignalKinds
        /\ lastEvent'.branch # ""
        /\ ~(Tracking /\ lastEvent'.branch = currentBranch))
       => /\ trackingStart' = now
          /\ currentBranch' = lastEvent'.branch
          /\ globalState'.lastTrackedBranch = lastEvent'.branch
          /\ globalState'.lastTrackingStart = now
          /\ globalState'.currentWorkspace = currentWorkspace
          /\ timers' = {now + 5 * 60 * 1000}
          /\ IF Tracking
             THEN OneCommit(branchTimeMap, branchTimeMap', currentWorkspace,
                            currentBranch, (now - trackingStart) \div 1000)
             ELSE branchTimeMap' = branchTimeMap
          /\ globalState'.branchTimeMap = branchTimeMap']_vars

\* a switch has just committed the seconds of the session before
C15_Witness ==
    /\ Tracking
    /\ lastEvent.kind \in SignalKinds
    /\ trackingStart = now
    /\ run.end = 0
    /\ run.stops = 1
    /\ run.secs > 0

---------------------------------------------------------------------------
(* C16 *)

\* C16: every stop of an open session, by focus loss, idle timeout, branch
\* switch or shutdown, ends the session and adds exactly
\* floor((now - trackingStart) / 1000) seconds to the entry of the current
\* workspace and the session's branch, in memory and in globalState, and
\* changes no other entry; the entry exists afterwards even when the
\* seconds are zero.
C16_CommitOnStop ==
    [][(/\ Tracking
        /\ \/ lastEvent'.kind \in {"focusLost", "idle", "deactivate"}
           \/ /\ lastEvent'.kind \in SignalKinds
              /\ lastEvent'.branch \notin {"", currentBranch})
       => /\ trackingStart' # trackingStart \/ currentBranch' # currentBranch
          /\ OneCommit(branchTimeMap, branchTimeMap', currentWorkspace,
                       currentBranch, (now - trackingStart) \div 1000)
          /\ globalState'.branchTimeMap = branchTimeMap']_vars

\* a stop has just committed zero seconds and made the entry
C16_Witness ==
    /\ lastEvent.kind \in {"focusLost", "deactivate"}
    /\ run.end = now
    /\ run.stops = 1
    /\ run.secs = 0
    /\ Has(branchTimeMap, currentWorkspace, lastTrackedBranch)
    /\ branchTimeMap[currentWorkspace][lastTrackedBranch] = 0

---------------------------------------------------------------------------
(* C17 *)

\* C17: every activity signal processed while Tracking (text-document
\* change, active-editor change, manual start, each with a branch resolved,
\* the branch of the open session included, and selection change) leaves
\* exactly the idle timer due one idle window after the signal, so the idle
\* callback never stops a session within an idle window of such a signal.
\* (Focus gained runs the same code as the first three and is the same
\* event.)
C17_ActivityReschedulesIdleTimer ==
    [][/\ (/\ Tracking
           /\ \/ lastEvent'.kind = "selection"
              \/ /\ lastEvent'.kind \in SignalKinds
                 /\ lastEvent'.branch # "")
          => timers' = {now + 5 * 60 * 1000}
       /\ (Tracking /\ lastEvent'.kind = "idle")
          => now - lastActivityAt >= 5 * 60 * 1000]_vars

---------------------------------------------------------------------------
(* C18 *)

\* C18: right after a focus loss or a shutdown no idle callback is pending.
C18_StopCancelsIdleTimer ==
    [][lastEvent'.kind \in {"focusLost", "deactivate"}
       => timers' = {}]_vars

---------------------------------------------------------------------------
(* C19 *)

\* C19: at most one idle callback is pending, and it is the one idleTimer
\* names; once the idle callback has run none is pending, so a timer that
\* was replaced never fires after its replacement.
C19_OneIdleTimer ==
    /\ [](Cardinality(timers) <= 1 /\ timers \subseteq {idleTimer})
    /\ [][lastEvent'.kind = "idle"
          => timers' = {} /\ trackingStart' = 0]_vars

\* a reset has just replaced a timer that was still pending
C19_Witness ==
    /\ Tracking
    /\ lastEvent.kind = "selection"
    /\ trackingStart < now
    /\ timers = {now + IdleTimeoutMs}

---------------------------------------------------------------------------
(* C20 *)

\* C20: while Tracking the marker in storage is the open session's
\* (workspace, branch, start); a marker is absent or has all three fields;
\* and a handler changes the marker only by removing it or by starting a
\* session, whose (workspace, branch, start) it then is, so that a marker
\* is always that of the session started last.
C20_MarkerInvariant ==
    /\ [](Tracking => MarkerOf(globalState) =
                         <<currentWorkspace, currentBranch, trackingStart>>)
    /\ [](MarkerPresent(globalState)
            => /\ globalState.lastTrackedBranch # ""
               /\ globalState.lastTrackingStart # 0
               /\ globalState.currentWorkspace # NoWorkspace)
    /\ [][MarkerOf(globalState') # MarkerOf(globalState)
          => \/ ~MarkerPresent(globalState')
             \/ /\ lastEvent'.kind \in SignalKinds
                /\ trackingStart' = now
                /\ MarkerOf(globalState') =
                      <<currentWorkspace, lastEvent'.branch, now>>]_vars

\* the session is closed and the marker is still that of the session
\* started last
C20_Witness ==
    /\ proc = "on"
    /\ lastEvent.kind = "focusLost"
    /\ run.end = now
    /\ trackingStart = 0
    /\ MarkerOf(globalState) =
          <<currentWorkspace, lastTrackedBranch, run.start>>
    /\ run.start < now

---------------------------------------------------------------------------
(* C21 *)

FailedStops == {"focusLostFailed", "idleFailed"}

\* C21: when the write of the ledger fails during a stop, no exception
\* leaves the handler, the session in memory is cleared and no idle timer
\* is left, the ledger in memory carries the session's seconds and the
\* stored ledger is as it was; when the read of the ledger fails at
\* startup, the ledger in memory is empty and activation completes.
C21_PersistenceFailureNonFatal ==
    [][/\ (lastEvent'.kind \in FailedStops
            => /\ ~hostError'
               /\ trackingStart' = 0 /\ currentBranch' = ""
               /\ timers' = {}
               /\ OneCommit(branchTimeMap, branchTimeMap', currentWorkspace,
                            currentBranch, DurationSec(trackingStart, now))
               /\ globalState'.branchTimeMap = globalState.branchTimeMap)
        /\ (lastEvent'.kind = "activateFailed"
            => /\ ~hostError'
               /\ branchTimeMap' = EmptyMap
               /\ proc' = "on"
               /\ currentWorkspace' = GetWorkspaceId(workspaceFolder'))]_vars

\* a session of positive length was stopped by a focus loss whose ledger
\* write failed: memory has the seconds, the storage does not
C21_Witness ==
    /\ lastEvent.kind = "focusLostFailed"
    /\ proc = "on" /\ ~hostError /\ trackingStart = 0
    /\ Seconds(branchTimeMap, currentWorkspace, "main") > 0
    /\ Seconds(globalState.branchTimeMap, currentWorkspace, "main") = 0

---------------------------------------------------------------------------
(* C22 *)

\* C22: a repository in detached HEAD state is a resolution failure: no
\* session, no ledger entry and no marker ever carries the branch name
\* "HEAD", in memory or in storage.
C22_DetachedIsResolutionFailure ==
    /\ currentBranch # "HEAD"
    /\ lastTrackedBranch # "HEAD"
    /\ globalState.lastTrackedBranch # "HEAD"
    /\ \A w \in DOMAIN branchTimeMap : "HEAD" \notin DOMAIN branchTimeMap[w]
    /\ \A w \in DOMAIN globalState.branchTimeMap :
          "HEAD" \notin DOMAIN globalState.branchTimeMap[w]

---------------------------------------------------------------------------
(* C23 *)

RECURSIVE SumSeconds(_, _)
\* the seconds of all the branches in bs of the workspace entry
SumSeconds(entry, bs) ==
    IF bs = {} THEN 0
    ELSE LET b == CHOOSE x \in bs : TRUE
         IN entry[b] + SumSeconds(entry, bs \ {b})

\* the total seconds of workspace w in the ledger
TotalSeconds(map, w) ==
    SumSeconds(LedgerGet(map, w), DOMAIN LedgerGet(map, w))

\* C23: the total seconds of the workspace, in the stored ledger and in the
\* ledger in memory, never exceed the wall-clock time elapsed since the
\* first session start (the initial state of SpecRestart, at Epoch).
C23_NoDoubleCounting ==
    /\ 1000 * TotalSeconds(globalState.branchTimeMap, GetWorkspaceId(PathA))
          <= now - Epoch
    /\ 1000 * TotalSeconds(branchTimeMap, GetWorkspaceId(PathA))
          <= now - Epoch

---------------------------------------------------------------------------
(* C24 *)

\* C24: in every Tracking state, entered by a start or by a resume, an idle
\* timer is pending; once no further signal arrives, an open session is
\* eventually closed by the idle timeout; and that stop commits the
\* session's elapsed seconds once.
C24_OpenSessionEventuallyClosed ==
    /\ [](Tracking => idleTimer \in timers)
    /\ (Tracking /\ Quiet) ~> (lastEvent.kind = "idle" /\ trackingStart = 0)
    /\ [][lastEvent'.kind = "idle" /\ Tracking
            => OneCommit(branchTimeMap, branchTimeMap', currentWorkspace,
                         currentBranch, DurationSec(trackingStart, now))]_vars

\* a session started at Epoch and resumed by a later process, with no
\* activity since its start, was closed by the idle timer of the resume
C24_Witness ==
    /\ lastEvent.kind = "idle"
    /\ Quiet
    /\ proc = "on" /\ trackingStart = 0
    /\ run.start = Epoch /\ run.end = now /\ run.stops = 1
    /\ lastActivityAt = Epoch
    /\ now > Epoch + IdleTimeoutMs
    /\ Seconds(branchTimeMap, currentWorkspace, "main")
          = DurationSec(Epoch, now)

---------------------------------------------------------------------------
(* C25 *)

\* C25: with two processes sharing the storage, a step of the process of
\* the first workspace never removes or decreases a stored entry of the
\* second workspace, which only the other process commits.
C25_NoLostUpdates ==
    [][lastEvent'.kind \notin OtherEvents
        => \A b \in Branches :
              Has(globalState.branchTimeMap, GetWorkspaceId(PathB), b)
              => /\ Has(globalState'.branchTimeMap, GetWorkspaceId(PathB), b)
                 /\ globalState'.branchTimeMap[GetWorkspaceId(PathB)][b]
                      >= globalState.branchTimeMap[GetWorkspaceId(PathB)][b]
      ]_vars

---------------------------------------------------------------------------
(* C26 *)

NoMarker == <<NoWorkspace, "", 0>>

\* the marker as the recovery of a process in workspace ws reads it: the
\* stored triple when the recovery considers it, no marker otherwise
MarkerRead(g, ws) == IF MarkerMatches(g, ws) THEN MarkerOf(g) ELSE NoMarker

\* C26: when the process terminates between two of the storage updates of
\* a start or of a clean stop, the marker read at the next startup is
\* absent, or the marker that was there before, or the (workspace, branch,
\* start) triple of the session being started: never a mix of two sessions.
C26_MarkerNeverTorn ==
    [][/\ (lastEvent'.kind = "tornStart"
            => MarkerRead(globalState', currentWorkspace)
                 \in {NoMarker, MarkerRead(globalState, currentWorkspace),
                      <<currentWorkspace, lastEvent'.branch, now>>})
        /\ (lastEvent'.kind = "deactivateLost"
            => MarkerRead(globalState', currentWorkspace)
                 \in {NoMarker, MarkerRead(globalState, currentWorkspace)})
      ]_vars

---------------------------------------------------------------------------
(* C27 *)

StopEvents == {"focusLost", "idle", "deactivate", "deactivateLost"}

\* C27: a clear of the workspace's data while Tracking leaves the session
\* in memory, the stored marker and the idle timer as they were; and a stop
\* of a session whose workspace has no entry in the ledger, as after a
\* clear, commits floor((now - trackingStart) / 1000) seconds, the time
\* before the clear included, as the only entry of the workspace.
C27_ClearKeepsOpenSession ==
    [][/\ (lastEvent'.kind = "clearYes" /\ Tracking
            => /\ trackingStart' = trackingStart
               /\ currentBranch' = currentBranch
               /\ lastTrackedBranch' = lastTrackedBranch
               /\ MarkerOf(globalState') = MarkerOf(globalState)
               /\ idleTimer' = idleTimer /\ timers' = timers
               /\ currentWorkspace \notin DOMAIN branchTimeMap')
        /\ (/\ lastEvent'.kind \in StopEvents
            /\ Tracking
            /\ currentWorkspace \notin DOMAIN branchTimeMap
            => /\ currentWorkspace \in DOMAIN branchTimeMap'
               /\ DOMAIN branchTimeMap'[currentWorkspace] = {currentBranch}
               /\ branchTimeMap'[currentWorkspace][currentBranch]
                    = DurationSec(trackingStart, now))
      ]_vars

\* the workspace's data was just cleared while a session is open that
\* started before now, in a run that had committed seconds before
C27_Witness ==
    /\ lastEvent.kind = "clearYes"
    /\ Tracking
    /\ trackingStart < now
    /\ run.stops >= 1 /\ run.secs > 0
    /\ currentWorkspace \notin DOMAIN branchTimeMap
    /\ MarkerOf(globalState)
          = <<currentWorkspace, currentBranch, trackingStart>>
    /\ idleTimer \in timers

---------------------------------------------------------------------------
(* C28 *)

\* C28: trackingStart is set if and only if currentBranch is set, and
\* while both are set lastTrackedBranch equals currentBranch, so that the
\* early return of startTrackingIfBranchFound is taken for a resolved
\* branch exactly when that branch is the open session's.
C28_SessionStateConsistent ==
    /\ trackingStart # 0 <=> currentBranch # ""
    /\ trackingStart # 0 /\ currentBranch # ""
          => lastTrackedBranch = currentBranch
    /\ \A b \in Branches :
          SameBranchOpen(Mem, b) <=> (trackingStart # 0 /\ b = currentBranch)

\* a session opened by a branch switch is open, after an earlier session
\* on the other branch was closed
C28_Witness ==
    /\ Tracking
    /\ run.stops >= 1
    /\ lastEvent = Event("signal", currentBranch)
    /\ lastTrackedBranch = currentBranch
    /\ \E b \in Branches \ {currentBranch} :
          Seconds(branchTimeMap, currentWorkspace, b) > 0

====
